---- MODULE Spec2Model ----
(***************************************************************************)
(* Model of the segment-identification pipeline of voiceonstudio:          *)
(*   analyzeAudio (src/lib/AudioAnalyzer.ts) -> analyzeAudioForCleanSegments*)
(*   (the direct, non-genkit flow, src/components/icons.tsx lines 177-495). *)
(*                                                                         *)
(* Numbers of the model's JSON are integers counted in 1/Scale units       *)
(* (Scale stands for 1.0).  Texts are sequences of units; a unit is a      *)
(* record [c, v]: a backtick, the letters "json", a whitespace character,  *)
(* a prose word, or a piece of JSON text.                                  *)
(*                                                                         *)
(* The wrapper hands its audio string to the flow under the name           *)
(* audioBase64 while the flow's input schema of icons.tsx names it         *)
(* audioUrl; the model treats the two as the one audio field of a request. *)
(*                                                                         *)
(* Five specifications share the variables: Spec is one analyze request,   *)
(* SpecTwo is two requests taking turns at their awaits, SpecPost is       *)
(* processAndCombineAudioSegments on a caller's segments array, SpecClean  *)
(* is analyzeAndCleanAudio, and SpecPage is the recording controls of the  *)
(* Home page (src/app/page.tsx lines 119-274): Start and Stop clicks,      *)
(* getUserMedia settling and the recorders' stop events, in any order.     *)
(***************************************************************************)
EXTENDS Integers, Sequences, FiniteSets, TLC

\* ------------------------------------------------------------------ bounds
\* Resolution of the numbers: 1.0 is Scale units.
Scale == 2
\* Longest segments array of a model payload.
MaxSegs == 2
\* Most result groups of a transcription response.
MaxGroups == 2
\* Longest segments array handed to the post-processor.
MaxFinal == 3
\* Most times the post-processor sorts one array.
MaxSorts == 2
\* Most calls of startRecording on the recording page.
MaxStarts == 3

\* ------------------------------------------------------------- small helpers
Range(s) == {s[i] : i \in 1..Len(s)}

SeqsUpTo(S, n) == UNION {[1..k -> S] : k \in 0..n}

\* ---------------------------------------------------------- JSON numbers/fields
\* A field of a JSON object: absent, a string, or a number n.
Absent == [k |-> "absent", n |-> 0]
Str    == [k |-> "str", n |-> 0]
Num(n) == [k |-> "num", n |-> n]

\* z.number(): the key is present and holds a number.
ZNumber(f) == f.k = "num"

\* z.number().min(0).max(1)
ConfidenceOk(f) == ZNumber(f) /\ f.n >= 0 * Scale /\ f.n <= 1 * Scale

\* SegmentSchema: start and end are numbers, confidence a number in [0,1].
SegmentSchemaOk(e) ==
    /\ ZNumber(e.start)
    /\ ZNumber(e.end)
    /\ ConfidenceOk(e.confidence)

\* The data zod returns for one element that passed: its three numbers.
SegmentData(e) == [start |-> e.start.n, end |-> e.end.n, confidence |-> e.confidence.n]

\* A parsed JSON value as the output schema sees it:
\*   kind "scalar"  : null, a number, a string, an array (not an object)
\*   kind "object"  : an object; segs is its "segments" key:
\*                    kind "absent"/"notArray"/"array" with the elements in items
JScalar == [kind |-> "scalar", segs |-> [kind |-> "absent", items |-> <<>>]]
JObject(segs) == [kind |-> "object", segs |-> segs]
SegsAbsent == [kind |-> "absent", items |-> <<>>]
SegsNotArray == [kind |-> "notArray", items |-> <<>>]
SegsArray(items) == [kind |-> "array", items |-> items]

\* Mutant of OutputSchemaOk: the elements of the array are not validated.
OutputSchemaOk_ArrayOnly(v) ==
    /\ v.kind = "object"
    /\ v.segs.kind = "array"

\* Mutant of OutputSchemaOk: an empty segments array is refused.
OutputSchemaOk_NonEmpty(v) ==
    /\ v.kind = "object"
    /\ v.segs.kind = "array"
    /\ v.segs.items # <<>>
    /\ \A i \in 1..Len(v.segs.items) : SegmentSchemaOk(v.segs.items[i])

\* AnalyzeAudioForCleanSegmentsOutputSchema.safeParse(v).success
OutputSchemaOk(v) ==
    /\ v.kind = "object"
    /\ v.segs.kind = "array"
    /\ \A i \in 1..Len(v.segs.items) : SegmentSchemaOk(v.segs.items[i])

\* Mutant of OutputSchemaData: the elements come out in reverse order.
OutputSchemaData_Reversed(v) ==
    [i \in 1..Len(v.segs.items) |-> SegmentData(v.segs.items[Len(v.segs.items) + 1 - i])]

\* validationResult.data: every element, in order, stripped to its three keys.
OutputSchemaData(v) == [i \in 1..Len(v.segs.items) |-> SegmentData(v.segs.items[i])]

\* ------------------------------------------------------------------- texts
\* Units of a text.  "val" is a complete JSON text without backticks whose
\* JSON.parse is v; "open" ... "close" are the two ends of a JSON object text
\* whose last member is a string ("note") holding the units between them; the
\* object without that member parses to the v of "open".
Tick  == [c |-> "tick", v |-> JScalar]
Tag   == [c |-> "json", v |-> JScalar]
Ws    == [c |-> "ws", v |-> JScalar]
Txt   == [c |-> "txt", v |-> JScalar]
Val(v)  == [c |-> "val", v |-> v]
Open(v) == [c |-> "open", v |-> v]
Close == [c |-> "close", v |-> JScalar]

IsWs(s, i) == i \in 1..Len(s) /\ s[i].c = "ws"
IsTick(s, i) == i \in 1..Len(s) /\ s[i].c = "tick"

\* String.prototype.trim
TrimFrom(s) == IF \E i \in 1..Len(s) : ~IsWs(s, i)
               THEN CHOOSE i \in 1..Len(s) : ~IsWs(s, i) /\ \A j \in 1..(i-1) : IsWs(s, j)
               ELSE Len(s) + 1
TrimTo(s) == IF \E i \in 1..Len(s) : ~IsWs(s, i)
             THEN CHOOSE i \in 1..Len(s) : ~IsWs(s, i) /\ \A j \in (i+1)..Len(s) : IsWs(s, j)
             ELSE 0
Trim(s) == SubSeq(s, TrimFrom(s), TrimTo(s))

\* JSON.parse of a text: [ok, v].  Leading and trailing whitespace is allowed;
\* what is left must be one complete JSON text.
JsonParse(s) ==
    LET t == Trim(s) IN
    IF Len(t) = 1 /\ t[1].c = "val" THEN [ok |-> TRUE, v |-> t[1].v]
    ELSE IF /\ Len(t) >= 2
            /\ t[1].c = "open"
            /\ t[Len(t)].c = "close"
            /\ \A i \in 2..(Len(t)-1) : t[i].c \in {"tick", "json", "ws", "txt"}
         THEN [ok |-> TRUE, v |-> t[1].v]
         ELSE [ok |-> FALSE, v |-> JScalar]

\* ``` at position i
FenceAt(s, i) == IsTick(s, i) /\ IsTick(s, i+1) /\ IsTick(s, i+2)

\* First position >= from where a fence starts; 0 when there is none.
FirstFence(s, from) ==
    IF \E i \in from..Len(s) : FenceAt(s, i)
    THEN CHOOSE i \in from..Len(s) : FenceAt(s, i) /\ \A j \in from..(i-1) : ~FenceAt(s, j)
    ELSE 0

\* \s* (greedy) from position i: the first position that is not whitespace.
SkipWs(s, i) ==
    IF \E j \in i..Len(s) : ~IsWs(s, j)
    THEN CHOOSE j \in i..Len(s) : ~IsWs(s, j) /\ \A m \in i..(j-1) : IsWs(s, m)
    ELSE Len(s) + 1

\* Mutant of JsonMatch: the group is greedy, it runs to the last fence.
JsonMatch_Greedy(s) ==
    LET i == FirstFence(s, 1)
        a == i + 3
        t == IF a <= Len(s) /\ s[a].c = "json" THEN a + 1 ELSE a
        k == SkipWs(s, t)
        Ends == {e \in k..Len(s) : FenceAt(s, SkipWs(s, e))}
        e == CHOOSE x \in Ends : \A y \in Ends : x >= y
    IN  IF i = 0 \/ Ends = {}
        THEN [found |-> FALSE, group |-> <<>>]
        ELSE [found |-> TRUE, group |-> SubSeq(s, k, e - 1)]

\* messageContent.match(/```(?:json)?\s*([\s\S]*?)\s*```/): [found, group].
\* The leftmost opening fence decides; the optional tag and the whitespace
\* after it are taken greedily; the group is lazy: it ends at the first
\* position from which whitespace and then a fence follow.
JsonMatch(s) ==
    LET i == FirstFence(s, 1)
        a == i + 3
        t == IF a <= Len(s) /\ s[a].c = "json" THEN a + 1 ELSE a
        k == SkipWs(s, t)
        Ends == {e \in k..Len(s) : FenceAt(s, SkipWs(s, e))}
        e == CHOOSE x \in Ends : \A y \in Ends : x <= y
    IN  IF i = 0 \/ Ends = {}
        THEN [found |-> FALSE, group |-> <<>>]
        ELSE [found |-> TRUE, group |-> SubSeq(s, k, e - 1)]

\* ------------------------------------------------------------- outcomes
\* An error is its message: the sequence of the parts that were concatenated,
\* outermost prefix first.
Pending == [status |-> "pending", segments |-> <<>>, error |-> <<>>]
Success(segs) == [status |-> "ok", segments |-> segs, error |-> <<>>]
Failure(msg) == [status |-> "error", segments |-> <<>>, error |-> msg]

\* new Error(`${prefix}: ${error.message}`)
Wrap(prefix, out) == IF out.status = "error" THEN Failure(<<prefix>> \o out.error) ELSE out

\* Lines 466-489: extract the JSON block, parse it, validate it.
ParseLlmOutput(messageContent) ==
    LET jsonMatch == JsonMatch(messageContent)
        jsonString == IF jsonMatch.found THEN jsonMatch.group ELSE messageContent
        parsed == JsonParse(jsonString)
    IN  IF ~parsed.ok
        THEN Failure(<<"Failed to parse the JSON content received from DeepSeek", "SyntaxError">>)
        ELSE IF ~OutputSchemaOk(parsed.v)
        THEN Failure(<<"Failed to parse the JSON content received from DeepSeek",
                       "DeepSeek response content structure validation failed", "ZodError">>)
        ELSE Success(OutputSchemaData(parsed.v))

\* ------------------------------------------------- transcription response
\* A time field of a word: absent, or a string: "" , "<n>s" (n in 1/Scale
\* seconds), or text that is no number.
TAbsent == [k |-> "absent", n |-> 0]
TEmpty == [k |-> "empty", n |-> 0]
TSecs(n) == [k |-> "secs", n |-> n]
TMalformed == [k |-> "malformed", n |-> 0]

\* A JavaScript number that may be NaN.
Number(n) == [nan |-> FALSE, n |-> n]
NaN == [nan |-> TRUE, n |-> 0]

\* parseFloat(t?.replace('s', '') || '0')
ParseTime(t) ==
    CASE t.k = "absent" -> Number(0)
      [] t.k = "empty" -> Number(0)
      [] t.k = "secs" -> Number(t.n)
      [] OTHER -> NaN

\* Optional array member.
ArrAbsent == [kind |-> "absent", items |-> <<>>]
Arr(items) == [kind |-> "array", items |-> items]

\* Optional string member; the text is a sequence of words.
SAbsent == [kind |-> "absent", text |-> <<>>]
SText(t) == [kind |-> "string", text |-> t]

WordInfo(w, st, en) == [word |-> w, startTime |-> st, endTime |-> en]
Alternative(tr, ws) == [transcript |-> tr, words |-> ws]
ResultGroup(alts) == [alternatives |-> alts]

\* Lines 348-354: the words of one alternative, in order.
AlternativeWords(alternative) ==
    IF alternative.words.kind = "absent" THEN <<>>
    ELSE [i \in 1..Len(alternative.words.items) |->
            [word |-> alternative.words.items[i].word,
             startTime |-> ParseTime(alternative.words.items[i].startTime),
             endTime |-> ParseTime(alternative.words.items[i].endTime)]]

\* result.alternatives?.[0] is defined
HasAlternative(result) ==
    result.alternatives.kind = "array" /\ Len(result.alternatives.items) > 0

\* Mutant of CollectWords: the last alternative of a group is read, not the first.
RECURSIVE CollectWords_LastAlternative(_)
CollectWords_LastAlternative(results) ==
    IF results = <<>> THEN <<>>
    ELSE (IF HasAlternative(Head(results))
          THEN AlternativeWords(Head(results).alternatives.items[Len(Head(results).alternatives.items)])
          ELSE <<>>) \o CollectWords_LastAlternative(Tail(results))

\* Lines 343-357: wordsWithTimings after the forEach over the result groups.
RECURSIVE CollectWords(_)
CollectWords(results) ==
    IF results = <<>> THEN <<>>
    ELSE (IF HasAlternative(Head(results))
          THEN AlternativeWords(Head(results).alternatives.items[1])
          ELSE <<>>) \o CollectWords(Tail(results))

\* Lines 346 and 358: transcript += (alternative.transcript || "") + " " per
\* group with an alternative, then trim().  The text is kept as its words; an
\* absent or empty transcript adds none.
RECURSIVE CollectTranscript(_)
CollectTranscript(results) ==
    IF results = <<>> THEN <<>>
    ELSE (IF HasAlternative(Head(results))
          THEN Head(results).alternatives.items[1].transcript.text
          ELSE <<>>) \o CollectTranscript(Tail(results))

\* Mutant of HasResults: the length of the array is not looked at.
HasResults_AnyArray(sttResult) == sttResult.results.kind = "array"

\* Line 342: sttResult.results && sttResult.results.length > 0
HasResults(sttResult) == sttResult.results.kind = "array" /\ Len(sttResult.results.items) > 0

\* ------------------------------------------------------------------ prompt
\* Number.prototype.toFixed(2): the number in hundredths, rounded; "NaN" for NaN.
ToFixed2(x) == IF x.nan THEN [nan |-> TRUE, hundredths |-> 0]
               ELSE [nan |-> FALSE, hundredths |-> (2 * 100 * x.n + Scale) \div (2 * Scale)]

\* Mutant of FormattedTranscript: the end of an entry repeats its start.
FormattedTranscript_StartTwice(wordsWithTimings) ==
    [i \in 1..Len(wordsWithTimings) |->
        [start |-> ToFixed2(wordsWithTimings[i].startTime),
         end |-> ToFixed2(wordsWithTimings[i].startTime),
         word |-> wordsWithTimings[i].word]]

\* Lines 379-381: one "[start-end] word" entry per word.
FormattedTranscript(wordsWithTimings) ==
    [i \in 1..Len(wordsWithTimings) |->
        [start |-> ToFixed2(wordsWithTimings[i].startTime),
         end |-> ToFixed2(wordsWithTimings[i].endTime),
         word |-> wordsWithTimings[i].word]]

\* Mutant of LlmPrompt: the script block is written whatever the script is.
LlmPrompt_AlwaysScript(wordsWithTimings, transcript, script) ==
    [transcriptBlock |->
        IF FormattedTranscript(wordsWithTimings) # <<>>
        THEN [kind |-> "timed", entries |-> FormattedTranscript(wordsWithTimings), text |-> <<>>]
        ELSE [kind |-> "plain", entries |-> <<>>, text |-> transcript],
     scriptBlock |-> "Script for comparison",
     script |-> IF script \in {"absent", ""} THEN "" ELSE script]

\* Lines 383-422: the parts of llmPrompt that depend on the request.
\* script is "absent", "" or a text; the two first are falsy.
LlmPrompt(wordsWithTimings, transcript, script) ==
    [transcriptBlock |->
        IF FormattedTranscript(wordsWithTimings) # <<>>
        THEN [kind |-> "timed", entries |-> FormattedTranscript(wordsWithTimings), text |-> <<>>]
        ELSE [kind |-> "plain", entries |-> <<>>, text |-> transcript],
     scriptBlock |-> IF script \in {"absent", ""} THEN "No script provided" ELSE "Script for comparison",
     script |-> IF script \in {"absent", ""} THEN "" ELSE script]

\* ------------------------------------------------------------------ inputs
\* A request's audio string: empty, a non-empty string that is no URL, a URL.
AudioInputs == {"", "UklGRg==", "https://host/take.webm"}
\* z.string().url()
IsUrl(a) == a = "https://host/take.webm"

ScriptInputs == {"absent", "", "the script"}

\* Outcomes of the plain GET of the audio.
AudioResponses == {"netError", "notOk", "ok"}

\* Outcomes of the metadata request: a body with access_token, a network
\* error, a non-success status, a body that is not JSON, a body without token.
MetadataFailures == {"netError", "notOk", "notJson", "noToken"}
MetadataResponses == {"ok"} \cup MetadataFailures

\* Outcomes of execSync('gcloud auth print-access-token'): prints a token,
\* prints nothing but whitespace, or fails (not installed, non-zero exit).
GcloudFailures == {"emptyToken", "execError"}
GcloudOutcomes == {"token"} \cup GcloudFailures

W1 == WordInfo("Hello", TSecs(0), TSecs(1))
W2 == WordInfo("world", TSecs(1), TSecs(2))
W3 == WordInfo("um", TAbsent, TMalformed)
W4 == WordInfo("Hollow", TSecs(0), TEmpty)

\* s with its i-th element replaced by e
Replace(s, i, e) == [j \in 1..Len(s) |-> IF j = i THEN e ELSE s[j]]

\* The sequences of up to n elements of Good, at most one of them replaced by
\* an element of Odd.
ListsWithOneOdd(Good, Odd, n) ==
    LET good == SeqsUpTo(Good, n)
    IN  good \cup {Replace(t[1], t[2], t[3]) :
                      t \in {u \in good \X (1..n) \X Odd : u[2] <= Len(u[1])}}

\* Result groups whose first alternative has a transcript and words.
SpeechGroups ==
    { ResultGroup(Arr(<<Alternative(SText(<<"Hello", "world">>), Arr(<<W1, W2>>)),
                        Alternative(SText(<<"Hollow">>), Arr(<<W4>>))>>)),
      ResultGroup(Arr(<<Alternative(SText(<<"um">>), Arr(<<W3>>))>>)) }
\* Result groups without alternatives, or whose alternative is bare or has a
\* transcript but no words.
OddGroups ==
    { ResultGroup(ArrAbsent),
      ResultGroup(Arr(<<>>)),
      ResultGroup(Arr(<<Alternative(SAbsent, ArrAbsent)>>)),
      ResultGroup(Arr(<<Alternative(SText(<<"Hello">>), ArrAbsent)>>)) }

\* The results arrays of a response.
ResultLists == ListsWithOneOdd(SpeechGroups, OddGroups, MaxGroups)

\* A transcription response: [http, json, results].
SttNetError == [http |-> "netError", json |-> FALSE, results |-> ArrAbsent]
SttNotOk == [http |-> "notOk", json |-> FALSE, results |-> ArrAbsent]
SttNotJson == [http |-> "ok", json |-> FALSE, results |-> ArrAbsent]
SttOk(results) == [http |-> "ok", json |-> TRUE, results |-> results]
SttResponses ==
    {SttNetError, SttNotOk, SttNotJson, SttOk(ArrAbsent)}
    \cup {SttOk(Arr(g)) : g \in ResultLists}

Seg(st, en, cf) == [start |-> st, end |-> en, confidence |-> cf]

\* Elements the schema accepts and whose numbers are in order.
GoodSegs == {Seg(Num(0), Num(2), Num(Scale)), Seg(Num(1), Num(3), Num(0))}
\* Elements off the segment contract in one way each.
OddSegs ==
    { Seg(Num(2), Num(2), Num(1)),          \* end = start
      Seg(Num(3), Num(1), Num(Scale)),      \* end < start
      Seg(Num(-1), Num(1), Num(1)),         \* start < 0
      Seg(Num(0), Num(1), Num(Scale + 1)),  \* confidence > 1
      Seg(Num(0), Num(1), Num(-1)),         \* confidence < 0
      Seg(Absent, Num(1), Num(1)),          \* no start
      Seg(Num(0), Str, Num(1)),             \* end is a string
      Seg(Num(0), Num(1), Absent) }         \* no confidence

\* Segments arrays: up to MaxSegs good elements, at most one of them replaced
\* by an odd one.
SegLists == ListsWithOneOdd(GoodSegs, OddSegs, MaxSegs)

\* The JSON values a completion may carry.
Payloads ==
    {JScalar, JObject(SegsAbsent), JObject(SegsNotArray)}
    \cup {JObject(SegsArray(l)) : l \in SegLists}

Fence == <<Tick, Tick, Tick>>

\* A payload whose JSON text carries a string member holding a fence.
NotePayload == JObject(SegsArray(<<Seg(Num(0), Num(2), Num(Scale))>>))

\* The JSON texts a completion may carry.
PayloadTexts ==
    {<<Val(v)>> : v \in Payloads} \cup {<<Open(NotePayload)>> \o Fence \o <<Close>>}

\* A payload text p inside a fenced block, with text before and after the block.
WrapForm(before, tag, p, after) == [before |-> before, tag |-> tag, p |-> p, after |-> after]
WrapText(f) == f.before \o Fence \o f.tag \o <<Ws>> \o f.p \o <<Ws>> \o Fence \o f.after

\* The wrappings of the completions: every payload text with plain prose around
\* a tagged block and as a bare untagged block; one payload with backticks in
\* the text before or after the block.
WrapForms ==
    {WrapForm(<<Txt, Ws>>, <<Tag>>, p, <<Ws, Txt>>) : p \in PayloadTexts}
    \cup {WrapForm(<<>>, <<>>, p, <<>>) : p \in PayloadTexts}
    \cup {WrapForm(b, <<Tag>>, <<Val(NotePayload)>>, <<Ws, Txt>>) :
            b \in {<<Txt, Ws>> \o Fence \o <<Txt>> \o Fence \o <<Ws>>, <<Txt, Tick>>}}
    \cup {WrapForm(<<Txt, Ws>>, <<Tag>>, <<Val(NotePayload)>>, <<Ws>> \o Fence \o <<Txt>> \o Fence)}

\* The texts a completion may be.
Completions ==
    PayloadTexts
    \cup {WrapText(f) : f \in WrapForms}
    \cup {<<>>, <<Ws>>, <<Txt, Ws, Txt>>}

\* A model-service response: [http, kind, content].
\*   not ok : kind is "notJson", "errorMessage" (JSON with error.message) or
\*            "noErrorMessage" (JSON without); one such body is a completion
\*   ok     : kind is "notJson", "noContent" (no choices[0].message.content)
\*            or "content"
LlmResponse(http, kind, content) == [http |-> http, kind |-> kind, content |-> content]
LlmResponses ==
    {LlmResponse("netError", "notJson", <<>>)}
    \cup {LlmResponse("notOk", k, <<>>) : k \in {"notJson", "errorMessage", "noErrorMessage"}}
    \cup {LlmResponse("notOk", "noErrorMessage", <<Val(NotePayload)>>)}
    \cup {LlmResponse("ok", k, <<>>) : k \in {"notJson", "noContent"}}
    \cup {LlmResponse("ok", "content", c) : c \in Completions}

\* ------------------------------------------------------- the code's steps
\* AnalyzeAudioForCleanSegmentsInputSchema.safeParse(input).success
InputSchemaOk(a) == IsUrl(a)

\* AudioAnalyzer.analyzeInternal, lines 59-63: the catch around the flow.
AnalyzeInternalCatch(out) == Wrap("Failed to analyze audio", out)

\* Mutant of FlowEntry: the API key is not checked before the audio is fetched.
FlowEntry_NoKeyCheck(a, keyConfigured) ==
    IF ~InputSchemaOk(a) THEN Failure(<<"Invalid input", "ZodError">>) ELSE Pending

\* analyzeAudioForCleanSegments up to its first await (lines 264-280):
\* Pending when it went on to fetch the audio.
FlowEntry(a, keyConfigured) ==
    IF ~InputSchemaOk(a) THEN Failure(<<"Invalid input", "ZodError">>)
    ELSE IF ~keyConfigured
    THEN Failure(<<"DeepSeek API Key (DEEPSEEK_API_KEY) is not configured.">>)
    ELSE Pending

\* Mutant of AnalyzeInternalEntry: the empty string is not rejected up front.
AnalyzeInternalEntry_NoEmptyCheck(a, keyConfigured) ==
    IF a # "" /\ ~InputSchemaOk(a)
    THEN AnalyzeInternalCatch(Failure(<<"Invalid input data for analysis flow", "ZodError">>))
    ELSE AnalyzeInternalCatch(FlowEntry(IF a = "" THEN "https://host/take.webm" ELSE a, keyConfigured))

\* AudioAnalyzer.analyzeInternal up to the first await of the flow it calls
\* (lines 30-52).  The first throw is outside the try and is not wrapped.
AnalyzeInternalEntry(a, keyConfigured) ==
    IF a = "" THEN Failure(<<"Audio data (base64) must be provided.">>)
    ELSE IF ~InputSchemaOk(a)
    THEN AnalyzeInternalCatch(Failure(<<"Invalid input data for analysis flow", "ZodError">>))
    ELSE AnalyzeInternalCatch(FlowEntry(a, keyConfigured))

\* Lines 280-291: the audio response; Pending when the buffer was read.
AudioFetchResult(r) ==
    CASE r = "netError" -> Failure(<<"Failed to fetch audio data from URL", "FetchError">>)
      [] r = "notOk" -> Failure(<<"Failed to fetch audio data from URL", "Failed to fetch audio", "status">>)
      [] OTHER -> Pending

\* Lines 236-243: the message of the error the metadata attempt ends with.
MetadataErrorMessage(r) ==
    CASE r = "netError" -> "FetchError"
      [] r = "notOk" -> "Metadata server request failed"
      [] r = "notJson" -> "SyntaxError"
      [] OTHER -> "Metadata server response did not contain access_token"

\* Lines 248-253: the message of the error the gcloud attempt ends with.
GcloudErrorMessage(r) ==
    IF r = "emptyToken" THEN "gcloud command returned empty token." ELSE "Command failed"

\* Line 254: what getGoogleAccessToken throws after both attempts failed.
TokenFailure(metaMsg, gcloudMsg) ==
    Failure(<<"Failed to obtain Google Cloud access token. Ensure ADC is configured or gcloud is installed and authenticated.">>)

\* Lines 369-372: the catch around the transcription stage.
SttCatch(out) == Wrap("Speech-to-Text analysis failed", out)

\* Lines 332-367: what the transcription response leads to: an error, the
\* early return of no segments, or Pending when the flow goes on.
SttResult(r) ==
    CASE r.http = "netError" -> Failure(<<"FetchError">>)
      [] r.http = "notOk" ->
            Failure(<<"Google Speech-to-Text API request failed", "status", "responseText">>)
      [] r.http = "ok" /\ ~r.json -> Failure(<<"SyntaxError">>)
      [] OTHER -> IF HasResults(r) THEN Pending ELSE Success(<<>>)

\* Lines 491-494: the catch around the model stage.
LlmCatch(out) == Wrap("Failed to analyze transcript using DeepSeek", out)

\* Mutant of LlmResult: the HTTP status is not looked at.
LlmResult_StatusIgnored(r) ==
    CASE r.http = "netError" -> Failure(<<"FetchError">>)
      [] r.http # "netError" /\ r.kind = "notJson" -> Failure(<<"SyntaxError">>)
      [] r.http # "netError" /\ r.kind = "noContent" ->
            Failure(<<"DeepSeek response did not contain the expected message content.">>)
      [] OTHER ->
            IF Trim(r.content) = <<>>
            THEN Failure(<<"DeepSeek response did not contain the expected message content.">>)
            ELSE ParseLlmOutput(Trim(r.content))

\* Lines 446-489: what the model-service response leads to.
LlmResult(r) ==
    CASE r.http = "netError" -> Failure(<<"FetchError">>)
      [] r.http = "notOk" ->
            Failure(<<"DeepSeek API request failed", "status",
                      IF r.kind = "errorMessage" THEN "error.message" ELSE "responseText">>)
      [] r.http = "ok" /\ r.kind = "notJson" -> Failure(<<"SyntaxError">>)
      [] r.http = "ok" /\ r.kind = "noContent" ->
            Failure(<<"DeepSeek response did not contain the expected message content.">>)
      [] OTHER ->
            IF Trim(r.content) = <<>>
            THEN Failure(<<"DeepSeek response did not contain the expected message content.">>)
            ELSE ParseLlmOutput(Trim(r.content))

\* ------------------------------------------------------------------- state
VARIABLES
    apiKey,             \* DEEPSEEK_API_KEY is set (read once, at module load)
    pc,                 \* where the request is
    audio, script,      \* the request
    calls,              \* the outbound calls made so far, in order
    metaError,          \* getGoogleAccessToken: the caught metadata error
    gcloudError,        \* getGoogleAccessToken: the caught gcloud error
    googleAccessToken,
    sttResult,          \* the transcription response
    transcript, wordsWithTimings,
    llmPrompt,
    llmResponse,        \* the model-service response
    outcome,            \* what analyzeAudio resolved or rejected with
    other,              \* the locals of a second request, suspended at an await
    interleaved,        \* the two requests were in flight together and took turns
    audioBase64,        \* processAndCombineAudioSegments: the audio of the last call
    given,              \* the caller's segments array as it was first handed over
    segments,           \* the caller's segments array (sorted in place)
    sorts,              \* how often the array was sorted
    processed,          \* what the last processAndCombineAudioSegments call ended with
    cleaned,            \* what analyzeAndCleanAudio resolved or rejected with
    isRecording,        \* Home: useState(false)
    mediaStream,        \* Home: useState(null): 0 or the number of a stream
    recordedChunks,     \* Home: useState([])
    audioFile,          \* Home: useState(null)
    audioPreviewUrl,    \* Home: useState(null)
    mediaRecorder,      \* Home: useRef(null): 0 or the number of a recorder
    recorderState,      \* of every MediaRecorder made, by its stream's number
    trackLive,          \* of every stream acquired: its tracks are live
    acquired,           \* how many streams getUserMedia has given
    pendingPermission,  \* how many getUserMedia calls are pending
    startCalls,         \* how many times startRecording was called
    delivered           \* the data every recorder has delivered, in order

\* The variables of the request that is running.
flowVars == <<apiKey, pc, audio, script, calls, metaError, gcloudError, googleAccessToken,
              sttResult, transcript, wordsWithTimings, llmPrompt, llmResponse, outcome>>

\* The variables of a call of the post-processor.
postVars == <<audioBase64, given, segments, sorts, processed>>

\* The variables of the recording page.
pageVars == <<isRecording, mediaStream, recordedChunks, audioFile, audioPreviewUrl,
              mediaRecorder, recorderState, trackLive, acquired, pendingPermission,
              startCalls, delivered>>

\* What a step of the running request leaves alone.
aside == <<other, interleaved, postVars, cleaned, pageVars>>

vars == <<flowVars, other, interleaved, postVars, cleaned, pageVars>>

\* ------------------------------------------------------ the post-processor
\* A CleanSegment: the three numbers of a validated segment.
CleanSegment(st, en) == [start |-> st, end |-> en, confidence |-> Scale]

\* The segments a caller hands over: two of them start together, the one with
\* the later end first in the set's listing.
CleanSegments ==
    {CleanSegment(0, 2), CleanSegment(0, 1), CleanSegment(1, 3), CleanSegment(2, 3)}

\* The segments argument: null/undefined, or an array of up to MaxFinal segments.
SegmentArrays == {ArrAbsent} \cup {Arr(l) : l \in SeqsUpTo(CleanSegments, MaxFinal)}

\* The audio argument: empty, or base64 text.
ProcessAudioInputs == {"", "UklGRg=="}

\* Mutant of SortCompare: descending.
SortCompare_Descending(a, b) == b.start - a.start

\* Line 100: the comparator (a, b) => a.start - b.start
SortCompare(a, b) == a.start - b.start

\* Mutant of SortInsert: an element goes in front of the elements it compares
\* equal to.
SortInsert_BeforeEquals(sorted, e) ==
    LET k == Cardinality({i \in 1..Len(sorted) : SortCompare(sorted[i], e) < 0})
    IN  SubSeq(sorted, 1, k) \o <<e>> \o SubSeq(sorted, k + 1, Len(sorted))

\* Array.prototype.sort is stable: an element goes behind every element of the
\* sorted prefix that does not compare greater than it.
SortInsert(sorted, e) ==
    LET k == Cardinality({i \in 1..Len(sorted) : SortCompare(sorted[i], e) <= 0})
    IN  SubSeq(sorted, 1, k) \o <<e>> \o SubSeq(sorted, k + 1, Len(sorted))

\* Line 100: segments.sort((a, b) => a.start - b.start)
RECURSIVE SortByStart(_)
SortByStart(s) ==
    IF s = <<>> THEN <<>>
    ELSE SortInsert(SortByStart(SubSeq(s, 1, Len(s) - 1)), s[Len(s)])

\* Mutant of ProcessEntry: the audio is looked at before the segments.
ProcessEntry_AudioFirst(a, segs) ==
    IF a = ""
    THEN Failure(<<"Audio data (base64) must be provided for processing.">>)
    ELSE IF segs.kind = "absent" \/ Len(segs.items) = 0
    THEN Failure(<<"Cannot process audio: No clean segments provided.">>)
    ELSE Pending

\* Lines 91-97: the two checks of the arguments; Pending when both passed.
ProcessEntry(a, segs) ==
    IF segs.kind = "absent" \/ Len(segs.items) = 0
    THEN Failure(<<"Cannot process audio: No clean segments provided.">>)
    ELSE IF a = ""
    THEN Failure(<<"Audio data (base64) must be provided for processing.">>)
    ELSE Pending

\* Mutant of ProcessExit: the call returns audio.
ProcessExit_ReturnsAudio(sorted) == Success(sorted)

\* Lines 111-112: what the call ends with once the segments are sorted.
ProcessExit(sorted) == Failure(<<"Audio segment processing not implemented yet.">>)

NoStt == [http |-> "none", json |-> FALSE, results |-> ArrAbsent]
NoLlm == LlmResponse("none", "notJson", <<>>)
NoPrompt == LlmPrompt(<<>>, <<>>, "absent")

\* ------------------------------------------------------ the recording page
\* The streams (and their recorders) a page can come to have.
Streams == 1..MaxStarts

\* audioFile and audioPreviewUrl: null, or made of a sequence of chunks.
NoFile == [kind |-> "null", chunks |-> <<>>]
FileOf(chunks) == [kind |-> "made", chunks |-> chunks]

\* The data of a dataavailable event of recorder r: size 0 or more.
BlobEvent(r, size) == [rec |-> r, size |-> size]
DataSizes == {0, 1}

\* Home as first rendered (page.tsx lines 120-129); no stream, no recorder.
PageLoaded ==
    /\ isRecording = FALSE
    /\ mediaStream = 0
    /\ recordedChunks = <<>>
    /\ audioFile = NoFile
    /\ audioPreviewUrl = NoFile
    /\ mediaRecorder = 0
    /\ recorderState = [r \in Streams |-> "none"]
    /\ trackLive = [r \in Streams |-> FALSE]
    /\ acquired = 0
    /\ pendingPermission = 0
    /\ startCalls = 0
    /\ delivered = [r \in Streams |-> <<>>]

\* ondataavailable (lines 170-181): data of size 0 is not kept.
OnDataAvailable(chunks, data) == IF data.size > 0 THEN Append(chunks, data) ELSE chunks

\* onstop (lines 189-214): audioFile (and likewise audioPreviewUrl) after the
\* handler, file being its value before: no chunks, nothing is made.
OnStopFile(currentChunks, file) ==
    IF Len(currentChunks) = 0 THEN file ELSE FileOf(currentChunks)

\* What analyzeAndCleanAudio ends with: [status, message, foundSegments, error].
NotCleaned == [status |-> "pending", message |-> "", foundSegments |-> <<>>, error |-> <<>>]
Cleaned(message, found) ==
    [status |-> "ok", message |-> message, foundSegments |-> found, error |-> <<>>]
CleanFailed(err) == [status |-> "error", message |-> "", foundSegments |-> <<>>, error |-> err]

\* extractSegmentsFromResult (lines 71-77): the segments of a result; the
\* result of analyzeInternal always has its segments array.
ExtractSegmentsFromResult(analysisResult) == analysisResult.segments

\* Mutant of AnalyzeAndCleanInternal: the takes are handed to
\* processAndCombineSegmentsInternal.
AnalyzeAndCleanInternal_Processes(analysis) ==
    IF analysis.status = "error" THEN CleanFailed(analysis.error)
    ELSE IF Len(ExtractSegmentsFromResult(analysis)) = 0
    THEN Cleaned("Analysis complete: No perfect takes found.", <<>>)
    ELSE CleanFailed(ProcessExit(SortByStart(ExtractSegmentsFromResult(analysis))).error)

\* analyzeAndCleanInternal after its await of analyzeInternal (lines 131-157):
\* a rejection goes through; otherwise the takes are reported, not processed.
AnalyzeAndCleanInternal(analysis) ==
    IF analysis.status = "error" THEN CleanFailed(analysis.error)
    ELSE IF Len(ExtractSegmentsFromResult(analysis)) = 0
    THEN Cleaned("Analysis complete: No perfect takes found.", <<>>)
    ELSE Cleaned("Analysis complete, processing not implemented.",
                 ExtractSegmentsFromResult(analysis))

\* The locals of a request that has not started.
IdleLocals ==
    [pc |-> "idle", audio |-> "", script |-> "absent", calls |-> <<>>,
     metaError |-> "none", gcloudError |-> "none", googleAccessToken |-> "none",
     sttResult |-> NoStt, transcript |-> <<>>, wordsWithTimings |-> <<>>,
     llmPrompt |-> NoPrompt, llmResponse |-> NoLlm, outcome |-> Pending]

Init ==
    /\ apiKey \in BOOLEAN
    /\ pc = "idle"
    /\ audio = ""
    /\ script = "absent"
    /\ calls = <<>>
    /\ metaError = "none"
    /\ gcloudError = "none"
    /\ googleAccessToken = "none"
    /\ sttResult = NoStt
    /\ transcript = <<>>
    /\ wordsWithTimings = <<>>
    /\ llmPrompt = NoPrompt
    /\ llmResponse = NoLlm
    /\ outcome = Pending
    /\ other = IdleLocals
    /\ interleaved = FALSE
    /\ audioBase64 = ""
    /\ given = ArrAbsent
    /\ segments = ArrAbsent
    /\ sorts = 0
    /\ processed = Pending
    /\ cleaned = NotCleaned
    /\ PageLoaded

\* The request ends with out.
Settle(out) == pc' = "done" /\ outcome' = out

\* analyzeAudio(a, s): runs to the flow's first await, the audio GET.
AnalyzeAudio(a, s) ==
    /\ pc = "idle"
    /\ audio' = a
    /\ script' = s
    /\ IF AnalyzeInternalEntry(a, apiKey).status = "pending"
       THEN /\ calls' = Append(calls, "audio")
            /\ pc' = "awaitAudio"
            /\ UNCHANGED outcome
       ELSE /\ Settle(AnalyzeInternalEntry(a, apiKey))
            /\ UNCHANGED calls
    /\ UNCHANGED <<apiKey, metaError, gcloudError, googleAccessToken, sttResult,
                   transcript, wordsWithTimings, llmPrompt, llmResponse>>
    /\ UNCHANGED aside

\* The audio GET settles; on success getGoogleAccessToken sends the metadata GET.
AudioResponse(r) ==
    /\ pc = "awaitAudio"
    /\ IF AudioFetchResult(r).status = "pending"
       THEN /\ calls' = Append(calls, "metadata")
            /\ pc' = "awaitMetadata"
            /\ UNCHANGED outcome
       ELSE /\ Settle(AnalyzeInternalCatch(AudioFetchResult(r)))
            /\ UNCHANGED calls
    /\ UNCHANGED <<apiKey, audio, script, metaError, gcloudError, googleAccessToken,
                   sttResult, transcript, wordsWithTimings, llmPrompt, llmResponse>>
    /\ UNCHANGED aside

\* Mutant of SendStt: the request goes out without the token of the resolver.
SendStt_NoToken(t) ==
    /\ googleAccessToken' = googleAccessToken
    /\ calls' = Append(calls, "stt")
    /\ pc' = "awaitStt"

\* The flow sends the transcription request with token t (lines 302-330).
SendStt(t) ==
    /\ googleAccessToken' = t
    /\ calls' = Append(calls, "stt")
    /\ pc' = "awaitStt"

\* Mutant of MetadataResponse: a failed metadata attempt fails the resolution
\* at once, gcloud is not tried.
MetadataResponse_NoFallback(r) ==
    /\ pc = "awaitMetadata"
    /\ IF r = "ok"
       THEN /\ SendStt("metadataToken")
            /\ UNCHANGED <<metaError, outcome>>
       ELSE /\ metaError' = MetadataErrorMessage(r)
            /\ Settle(AnalyzeInternalCatch(SttCatch(TokenFailure(MetadataErrorMessage(r), "none"))))
            /\ UNCHANGED <<googleAccessToken, calls>>
    /\ UNCHANGED <<apiKey, audio, script, gcloudError, sttResult, transcript,
                   wordsWithTimings, llmPrompt, llmResponse>>
    /\ UNCHANGED aside

\* The metadata GET settles (lines 233-243): the token is returned, or the
\* error is caught and execSync starts gcloud.
MetadataResponse(r) ==
    /\ pc = "awaitMetadata"
    /\ IF r = "ok"
       THEN /\ SendStt("metadataToken")
            /\ UNCHANGED metaError
       ELSE /\ metaError' = MetadataErrorMessage(r)
            /\ calls' = Append(calls, "gcloud")
            /\ pc' = "gcloud"
            /\ UNCHANGED googleAccessToken
    /\ UNCHANGED <<apiKey, audio, script, gcloudError, sttResult, transcript,
                   wordsWithTimings, llmPrompt, llmResponse, outcome>>
    /\ UNCHANGED aside

\* execSync returns or throws (lines 248-255).  A returned token ends
\* getGoogleAccessToken, whose caught error goes out of scope.
GcloudToken(r) ==
    /\ pc = "gcloud"
    /\ IF r = "token"
       THEN /\ SendStt("gcloudToken")
            /\ metaError' = "none"
            /\ UNCHANGED <<gcloudError, outcome>>
       ELSE /\ gcloudError' = GcloudErrorMessage(r)
            /\ Settle(AnalyzeInternalCatch(SttCatch(TokenFailure(metaError, GcloudErrorMessage(r)))))
            /\ UNCHANGED <<metaError, googleAccessToken, calls>>
    /\ UNCHANGED <<apiKey, audio, script, sttResult, transcript, wordsWithTimings,
                   llmPrompt, llmResponse>>
    /\ UNCHANGED aside

\* Mutant of SttResponse: after a network error the request is sent again.
SttResponse_Retry(r) ==
    /\ pc = "awaitStt"
    /\ sttResult' = r
    /\ IF r.http = "netError"
       THEN /\ calls' = Append(calls, "stt")
            /\ UNCHANGED <<pc, transcript, wordsWithTimings, llmPrompt, outcome>>
       ELSE IF SttResult(r).status = "pending"
       THEN /\ transcript' = CollectTranscript(r.results.items)
            /\ wordsWithTimings' = CollectWords(r.results.items)
            /\ llmPrompt' = LlmPrompt(wordsWithTimings', transcript', script)
            /\ calls' = Append(calls, "deepseek")
            /\ pc' = "awaitLlm"
            /\ UNCHANGED outcome
       ELSE /\ Settle(AnalyzeInternalCatch(SttCatch(SttResult(r))))
            /\ UNCHANGED <<transcript, wordsWithTimings, llmPrompt, calls>>
    /\ UNCHANGED <<apiKey, audio, script, metaError, gcloudError, googleAccessToken,
                   llmResponse>>
    /\ UNCHANGED aside

\* The transcription response settles (lines 332-372); when there are result
\* groups the prompt is built and the model request sent (lines 379-444).
SttResponse(r) ==
    /\ pc = "awaitStt"
    /\ sttResult' = r
    /\ IF SttResult(r).status = "pending"
       THEN /\ transcript' = CollectTranscript(r.results.items)
            /\ wordsWithTimings' = CollectWords(r.results.items)
            /\ llmPrompt' = LlmPrompt(wordsWithTimings', transcript', script)
            /\ calls' = Append(calls, "deepseek")
            /\ pc' = "awaitLlm"
            /\ UNCHANGED outcome
       ELSE /\ Settle(AnalyzeInternalCatch(SttCatch(SttResult(r))))
            /\ UNCHANGED <<transcript, wordsWithTimings, llmPrompt, calls>>
    /\ UNCHANGED <<apiKey, audio, script, metaError, gcloudError, googleAccessToken,
                   llmResponse>>
    /\ UNCHANGED aside

\* The model-service response settles (lines 446-494).
DeepSeekResponse(r) ==
    /\ pc = "awaitLlm"
    /\ llmResponse' = r
    /\ Settle(AnalyzeInternalCatch(LlmCatch(LlmResult(r))))
    /\ UNCHANGED <<apiKey, audio, script, calls, metaError, gcloudError, googleAccessToken,
                   sttResult, transcript, wordsWithTimings, llmPrompt>>
    /\ UNCHANGED aside

Next ==
    \/ \E a \in AudioInputs, s \in ScriptInputs : AnalyzeAudio(a, s)
    \/ \E r \in AudioResponses : AudioResponse(r)
    \/ \E r \in MetadataResponses : MetadataResponse(r)
    \/ \E r \in GcloudOutcomes : GcloudToken(r)
    \/ \E r \in SttResponses : SttResponse(r)
    \/ \E r \in LlmResponses : DeepSeekResponse(r)

Spec == Init /\ [][Next]_vars

\* ------------------------------------------------ two requests in flight
\* The locals of the running request.
Locals ==
    [pc |-> pc, audio |-> audio, script |-> script, calls |-> calls,
     metaError |-> metaError, gcloudError |-> gcloudError,
     googleAccessToken |-> googleAccessToken, sttResult |-> sttResult,
     transcript |-> transcript, wordsWithTimings |-> wordsWithTimings,
     llmPrompt |-> llmPrompt, llmResponse |-> llmResponse, outcome |-> outcome]

\* A request is between its first await and its end.
InFlight(st) == st.pc \notin {"idle", "done"}

\* Mutant of Switch: sttResult is not a local of the flow but one slot both
\* requests use.
Switch_SharedSttResult ==
    /\ pc # "gcloud"
    /\ other' = Locals
    /\ pc' = other.pc
    /\ audio' = other.audio
    /\ script' = other.script
    /\ calls' = other.calls
    /\ metaError' = other.metaError
    /\ gcloudError' = other.gcloudError
    /\ googleAccessToken' = other.googleAccessToken
    /\ sttResult' = sttResult
    /\ transcript' = other.transcript
    /\ wordsWithTimings' = other.wordsWithTimings
    /\ llmPrompt' = other.llmPrompt
    /\ llmResponse' = other.llmResponse
    /\ outcome' = other.outcome
    /\ interleaved' = (interleaved \/ (InFlight(Locals) /\ InFlight(other)))
    /\ UNCHANGED <<apiKey, postVars, cleaned, pageVars>>

\* The event loop turns to the other request: analyzeAudio goes through the one
\* analyzerInstance, which has no fields, and every variable of the flow is a
\* local of the call, so the running request's locals are set aside and the
\* other's are taken up; DEEPSEEK_API_KEY is the one module-level value both
\* read.  execSync blocks the event loop: no turn while gcloud runs.
Switch ==
    /\ pc # "gcloud"
    /\ other' = Locals
    /\ pc' = other.pc
    /\ audio' = other.audio
    /\ script' = other.script
    /\ calls' = other.calls
    /\ metaError' = other.metaError
    /\ gcloudError' = other.gcloudError
    /\ googleAccessToken' = other.googleAccessToken
    /\ sttResult' = other.sttResult
    /\ transcript' = other.transcript
    /\ wordsWithTimings' = other.wordsWithTimings
    /\ llmPrompt' = other.llmPrompt
    /\ llmResponse' = other.llmResponse
    /\ outcome' = other.outcome
    /\ interleaved' = (interleaved \/ (InFlight(Locals) /\ InFlight(other)))
    /\ UNCHANGED <<apiKey, postVars, cleaned, pageVars>>

\* The responses the two requests draw from.
TwoScriptInputs == {"absent", "the script"}
TwoMetadataResponses == {"ok", "notOk"}
TwoSttResponses ==
    {SttNetError, SttOk(Arr(<<>>))}
    \cup {SttOk(Arr(<<g>>)) : g \in SpeechGroups}
TwoLlmResponses ==
    { LlmResponse("netError", "notJson", <<>>),
      LlmResponse("ok", "content", <<Txt, Ws, Txt>>),
      LlmResponse("ok", "content", <<Val(NotePayload)>>),
      LlmResponse("ok", "content",
                  WrapText(WrapForm(<<Txt, Ws>>, <<Tag>>, <<Val(JObject(SegsArray(<<>>)))>>, <<>>))) }

NextTwo ==
    \/ \E a \in AudioInputs, s \in TwoScriptInputs : AnalyzeAudio(a, s)
    \/ \E r \in AudioResponses : AudioResponse(r)
    \/ \E r \in TwoMetadataResponses : MetadataResponse(r)
    \/ \E r \in GcloudOutcomes : GcloudToken(r)
    \/ \E r \in TwoSttResponses : SttResponse(r)
    \/ \E r \in TwoLlmResponses : DeepSeekResponse(r)
    \/ Switch

SpecTwo == Init /\ [][NextTwo]_vars

\* ------------------------------------------------- analyzeAndCleanAudio
\* analyzeAndCleanAudio: the request is its call of analyzeInternal; when that
\* has settled, analyzeAndCleanInternal goes on (lines 131-157, 198-200).
AnalyzeAndCleanReturn ==
    /\ pc = "done"
    /\ cleaned.status = "pending"
    /\ cleaned' = AnalyzeAndCleanInternal(outcome)
    /\ UNCHANGED <<flowVars, other, interleaved, postVars, pageVars>>

\* The model answers of these requests: those of the two-request runs and two
\* overlapping segments, the later one first.
CleanLlmResponses ==
    TwoLlmResponses
    \cup {LlmResponse("ok", "content",
                      <<Val(JObject(SegsArray(<<Seg(Num(1), Num(3), Num(0)),
                                                Seg(Num(0), Num(2), Num(Scale))>>)))>>)}

NextClean ==
    \/ \E a \in AudioInputs, s \in TwoScriptInputs : AnalyzeAudio(a, s)
    \/ \E r \in AudioResponses : AudioResponse(r)
    \/ \E r \in MetadataResponses : MetadataResponse(r)
    \/ \E r \in GcloudOutcomes : GcloudToken(r)
    \/ \E r \in TwoSttResponses : SttResponse(r)
    \/ \E r \in CleanLlmResponses : DeepSeekResponse(r)
    \/ AnalyzeAndCleanReturn

SpecClean == Init /\ [][NextClean]_vars

\* ----------------------------------------------- the recording page, used
\* What a step of the page leaves alone.
offPage == <<flowVars, other, interleaved, postVars, cleaned>>

\* The record button shows Start: startRecording runs to its await of
\* getUserMedia (lines 152-163).
ClickStart ==
    /\ ~isRecording
    /\ startCalls < MaxStarts
    /\ startCalls' = startCalls + 1
    /\ audioPreviewUrl' = NoFile
    /\ audioFile' = NoFile
    /\ recordedChunks' = <<>>
    /\ pendingPermission' = pendingPermission + 1
    /\ UNCHANGED <<isRecording, mediaStream, mediaRecorder, recorderState, trackLive,
                   acquired, delivered>>
    /\ UNCHANGED offPage

\* getUserMedia resolves with a new stream (lines 163-240): a recorder is
\* made for it, put in the ref and started.
PermissionGranted ==
    /\ pendingPermission > 0
    /\ pendingPermission' = pendingPermission - 1
    /\ acquired' = acquired + 1
    /\ trackLive' = [trackLive EXCEPT ![acquired'] = TRUE]
    /\ mediaStream' = acquired'
    /\ recordedChunks' = <<>>
    /\ mediaRecorder' = acquired'
    /\ recorderState' = [recorderState EXCEPT ![acquired'] = "recording"]
    /\ isRecording' = TRUE
    /\ UNCHANGED <<audioFile, audioPreviewUrl, startCalls, delivered>>
    /\ UNCHANGED offPage

\* getUserMedia rejects (lines 241-248).
PermissionDenied ==
    /\ pendingPermission > 0
    /\ pendingPermission' = pendingPermission - 1
    /\ mediaStream' = 0
    /\ isRecording' = FALSE
    /\ recordedChunks' = <<>>
    /\ UNCHANGED <<audioFile, audioPreviewUrl, mediaRecorder, recorderState, trackLive,
                   acquired, startCalls, delivered>>
    /\ UNCHANGED offPage

\* The record button shows Stop: stopRecording (lines 251-274).  stop() makes
\* the recorder inactive at once and queues its events; the other branch is
\* the fallback cleanup.
ClickStop ==
    /\ isRecording
    /\ IF mediaRecorder # 0 /\ recorderState[mediaRecorder] = "recording"
       THEN /\ recorderState' = [recorderState EXCEPT ![mediaRecorder] = "stopping"]
            /\ UNCHANGED <<isRecording, mediaStream, recordedChunks, trackLive>>
       ELSE /\ trackLive' = IF mediaStream # 0
                            THEN [trackLive EXCEPT ![mediaStream] = FALSE]
                            ELSE trackLive
            /\ mediaStream' = 0
            /\ isRecording' = FALSE
            /\ recordedChunks' = <<>>
            /\ UNCHANGED recorderState
    /\ UNCHANGED <<audioFile, audioPreviewUrl, mediaRecorder, acquired, pendingPermission,
                   startCalls, delivered>>
    /\ UNCHANGED offPage

\* The task stop() queued for recorder r runs: dataavailable with the data
\* gathered since start(), then stop (lines 170-236).  The handlers close over
\* the stream of their own startRecording call.  new Blob, new File and
\* createObjectURL do not throw on these arguments.
RecorderStopped(r, size) ==
    /\ recorderState[r] = "stopping"
    /\ recorderState' = [recorderState EXCEPT ![r] = "inactive"]
    /\ delivered' = [delivered EXCEPT ![r] = Append(@, BlobEvent(r, size))]
    /\ audioFile' = OnStopFile(OnDataAvailable(recordedChunks, BlobEvent(r, size)), audioFile)
    /\ audioPreviewUrl' =
            OnStopFile(OnDataAvailable(recordedChunks, BlobEvent(r, size)), audioPreviewUrl)
    /\ trackLive' = [trackLive EXCEPT ![r] = FALSE]
    /\ mediaStream' = 0
    /\ isRecording' = FALSE
    /\ recordedChunks' = <<>>
    /\ UNCHANGED <<mediaRecorder, acquired, pendingPermission, startCalls>>
    /\ UNCHANGED offPage

NextPage ==
    \/ ClickStart
    \/ ClickStop
    \/ PermissionGranted
    \/ PermissionDenied
    \/ \E r \in Streams, size \in DataSizes : RecorderStopped(r, size)

\* The page alone: no analyze request is made.
InitPage == Init /\ apiKey = TRUE

SpecPage == InitPage /\ [][NextPage]_vars

\* ------------------------------------------- the post-processor on its own
\* A caller holds a segments array; no analyze request is running.
InitPost ==
    /\ apiKey = TRUE
    /\ pc = "idle"
    /\ audio = ""
    /\ script = "absent"
    /\ calls = <<>>
    /\ metaError = "none"
    /\ gcloudError = "none"
    /\ googleAccessToken = "none"
    /\ sttResult = NoStt
    /\ transcript = <<>>
    /\ wordsWithTimings = <<>>
    /\ llmPrompt = NoPrompt
    /\ llmResponse = NoLlm
    /\ outcome = Pending
    /\ other = IdleLocals
    /\ interleaved = FALSE
    /\ audioBase64 = ""
    /\ given \in SegmentArrays
    /\ segments = given
    /\ sorts = 0
    /\ processed = Pending
    /\ cleaned = NotCleaned
    /\ PageLoaded

\* processAndCombineAudioSegments(a, segments) on the caller's array (lines
\* 88-117, 185-187): the checks, the sort in place, the final throw.
ProcessAndCombineAudioSegments(a) ==
    /\ audioBase64' = a
    /\ IF ProcessEntry(a, segments).status = "pending"
       THEN /\ sorts < MaxSorts
            /\ segments' = Arr(SortByStart(segments.items))
            /\ sorts' = sorts + 1
            /\ processed' = ProcessExit(segments'.items)
       ELSE /\ processed' = ProcessEntry(a, segments)
            /\ UNCHANGED <<segments, sorts>>
    /\ UNCHANGED <<flowVars, other, interleaved, given, cleaned, pageVars>>

NextPost == \E a \in ProcessAudioInputs : ProcessAndCombineAudioSegments(a)

SpecPost == InitPost /\ [][NextPost]_vars

\* ================================================================= claims
Done == pc = "done"

\* The error taxonomy of the design, read off the messages of the code.
ErrorKind(err) ==
    CASE \E m \in Range(err) : m \in {"Audio data (base64) must be provided.",
                                      "Invalid input data for analysis flow",
                                      "Invalid input"} -> "InvalidInput"
      [] "DeepSeek API Key (DEEPSEEK_API_KEY) is not configured." \in Range(err) -> "Config"
      [] "Failed to fetch audio data from URL" \in Range(err) -> "AudioFetch"
      [] "Failed to obtain Google Cloud access token. Ensure ADC is configured or gcloud is installed and authenticated."
            \in Range(err) -> "Auth"
      [] "Speech-to-Text analysis failed" \in Range(err) -> "Transcription"
      [] \E m \in Range(err) : m \in {"Failed to parse the JSON content received from DeepSeek",
                                      "DeepSeek response did not contain the expected message content."}
            -> "ModelOutput"
      [] "Failed to analyze transcript using DeepSeek" \in Range(err) -> "ModelService"
      [] OTHER -> "Unknown"

\* The model service answered with a completion.
GotCompletion == llmResponse.http = "ok" /\ llmResponse.kind = "content"

\* The JSON the completion carries, as JSON.parse reads the extracted text.
ModelJson ==
    LET c == Trim(llmResponse.content)
        m == JsonMatch(c)
    IN  JsonParse(IF m.found THEN m.group ELSE c)

\* The model answered with a JSON object whose segments member is an array.
\* Its segments array, when the model answered with a JSON object that has one.
ModelSegments ==
    LET j == ModelJson
    IN  IF GotCompletion /\ j.ok /\ j.v.kind = "object" /\ j.v.segs.kind = "array"
        THEN j.v.segs.items
        ELSE <<>>

\* C1: every analyze request with non-empty audio ends in an error or in a
\* result whose segments all satisfy 0 <= start < end and 0 <= confidence <= 1.
C1_SegmentsWithinBounds ==
    (Done /\ audio # "") =>
        \/ outcome.status = "error"
        \/ /\ outcome.status = "ok"
           /\ \A i \in 1..Len(outcome.segments) :
                /\ 0 <= outcome.segments[i].start
                /\ outcome.segments[i].start < outcome.segments[i].end
                /\ 0 <= outcome.segments[i].confidence
                /\ outcome.segments[i].confidence <= Scale

\* Some element of the model's segments array has numeric start and end with end <= start.
EndNotAfterStart(e) == e.start.k = "num" /\ e.end.k = "num" /\ e.end.n <= e.start.n

\* C2: when the model's segments array holds a segment with end <= start, the
\* request fails with a model-output error and returns no segments.
C2_EndNotAfterStartRejected ==
    LET segs == ModelSegments IN
    (Done /\ \E i \in 1..Len(segs) : EndNotAfterStart(segs[i])) =>
        /\ outcome.status = "error"
        /\ ErrorKind(outcome.error) = "ModelOutput"
        /\ outcome.segments = <<>>

\* An element without a numeric start, end or confidence, or with a confidence outside [0,1].
OffSchema(e) ==
    \/ e.start.k # "num"
    \/ e.end.k # "num"
    \/ e.confidence.k # "num"
    \/ e.confidence.n < 0
    \/ e.confidence.n > Scale

\* C3: no partial acceptance: when any element of the model's segments array
\* is off the schema, the request fails with a model-output error and no
\* segment of the response reaches the caller.
C3_NoPartialAcceptance ==
    LET segs == ModelSegments IN
    (Done /\ \E i \in 1..Len(segs) : OffSchema(segs[i])) =>
        /\ outcome.status = "error"
        /\ ErrorKind(outcome.error) = "ModelOutput"
        /\ outcome.segments = <<>>

\* C3 witness: a response with an off-schema element next to a well-formed one was rejected.
C3_Witness ==
    LET segs == ModelSegments IN
    /\ Done
    /\ Len(segs) >= 2
    /\ \E i \in 1..Len(segs) : OffSchema(segs[i])
    /\ \E i \in 1..Len(segs) : ~OffSchema(segs[i]) /\ ~EndNotAfterStart(segs[i])
    /\ outcome.status = "error"

\* C4: a request with empty audio is rejected with the invalid-input error of
\* the entry point, and no outbound call has been made.
C4_EmptyAudioRejected ==
    (Done /\ audio = "") =>
        /\ outcome = Failure(<<"Audio data (base64) must be provided.">>)
        /\ ErrorKind(outcome.error) = "InvalidInput"
        /\ calls = <<>>

\* C4 witness: a request with empty audio has been rejected.
C4_Witness == Done /\ audio = "" /\ outcome.status = "error"

\* C5: without the API key no outbound call is ever made, and every request
\* with valid input ends in the configuration error.
C5_MissingKeyFailsBeforeCalls ==
    ~apiKey =>
        /\ calls = <<>>
        /\ pc \in {"idle", "done"}
        /\ (Done /\ audio # "" /\ InputSchemaOk(audio)) =>
                /\ outcome.status = "error"
                /\ ErrorKind(outcome.error) = "Config"

\* C5 witness: a valid request failed for the missing key.
C5_Witness ==
    /\ ~apiKey /\ Done /\ InputSchemaOk(audio)
    /\ "DeepSeek API Key (DEEPSEEK_API_KEY) is not configured." \in Range(outcome.error)

\* The transcription service answered successfully with JSON.
SttAnswered == sttResult.http = "ok" /\ sttResult.json

\* C6: a successful transcription response whose results are absent or the
\* empty array ends the request with zero segments, no error, and no call of
\* the model service.
C6_NoResultsIsEmptySuccess ==
    (SttAnswered /\ (sttResult.results.kind = "absent" \/ sttResult.results.items = <<>>)) =>
        /\ Done
        /\ outcome = Success(<<>>)
        /\ "deepseek" \notin Range(calls)

\* C6 witness: the response {results: []} was received.
C6_Witness == SttAnswered /\ sttResult.results = Arr(<<>>) /\ Done

\* C7: a successful transcription response that yields zero words and empty
\* transcript text ends the request with zero segments and no call of the model service.
C7_NoWordsNoTextShortCircuits ==
    (/\ SttAnswered
     /\ CollectWords(sttResult.results.items) = <<>>
     /\ CollectTranscript(sttResult.results.items) = <<>>) =>
        /\ Done
        /\ outcome = Success(<<>>)
        /\ "deepseek" \notin Range(calls)

NoTick(s) == \A i \in 1..Len(s) : s[i].c # "tick"
NoFence(s) == FirstFence(s, 1) = 0

\* What the request ends with when the completion is the text p alone.
AloneOutcome(p) == AnalyzeInternalCatch(LlmCatch(LlmResult(LlmResponse("ok", "content", p))))

\* The same result, or the same kind of failure.
SameOutcome(a, b) ==
    /\ a.status = b.status
    /\ a.segments = b.segments
    /\ ErrorKind(a.error) = ErrorKind(b.error)

\* Every wrapping with its text.
WrapPairs == {<<WrapText(f), f>> : f \in WrapForms}

\* The wrappings the completion of a finished request is an instance of.
CompletionForms ==
    IF Done /\ GotCompletion
    THEN {pr[2] : pr \in {q \in WrapPairs : q[1] = llmResponse.content}}
    ELSE {}

\* C8 as claimed: for every payload text and every text before and after it,
\* the fenced completion ends as the payload alone would.
C8_FencedAsUnwrapped ==
    \A f \in CompletionForms : SameOutcome(outcome, AloneOutcome(f.p))

\* C8 amended: the same, for a payload text without a triple backtick behind
\* text that holds no backtick; the text after the block is free.
C8_FencedAsUnwrappedNoBackticks ==
    \A f \in CompletionForms :
        (NoTick(f.before) /\ NoFence(f.p)) => SameOutcome(outcome, AloneOutcome(f.p))

\* C8 witness: a tagged block between prose was read and gave its segments.
C8_Witness ==
    \E f \in CompletionForms :
        /\ f.before # <<>> /\ f.after # <<>>
        /\ NoTick(f.before) /\ NoFence(f.p)
        /\ outcome.status = "ok"
        /\ outcome.segments # <<>>

MetadataErrorMessages == {MetadataErrorMessage(r) : r \in MetadataFailures}

\* C9: gcloud is called only right after a metadata call that failed; every
\* failure of the metadata attempt is followed by the gcloud call; and when
\* gcloud printed a token the transcription request goes out with that token.
C9_MetadataThenGcloud ==
    /\ \A i \in 1..Len(calls) : calls[i] = "gcloud" => (i > 1 /\ calls[i-1] = "metadata")
    /\ "gcloud" \in Range(calls) => googleAccessToken # "metadataToken"
    /\ pc = "gcloud" => metaError \in MetadataErrorMessages
    /\ metaError # "none" => "gcloud" \in Range(calls)
    /\ ("gcloud" \in Range(calls) /\ pc # "gcloud" /\ gcloudError = "none") =>
            /\ googleAccessToken = "gcloudToken"
            /\ "stt" \in Range(calls)
            /\ (Done => ErrorKind(outcome.error) # "Auth")
    /\ googleAccessToken = "metadataToken" => metaError = "none"

\* C9 witness: the metadata attempt failed, gcloud printed a token, and the
\* transcription request was sent with it.
C9_Witness ==
    /\ calls = <<"audio", "metadata", "gcloud", "stt">>
    /\ googleAccessToken = "gcloudToken"
    /\ pc = "awaitStt"

\* C10: getGoogleAccessToken fails only after both attempts failed, and its
\* error carries the message of the metadata failure and that of the gcloud failure.
C10_BothDiagnosticsCarried ==
    (Done /\ ErrorKind(outcome.error) = "Auth") =>
        /\ metaError # "none"
        /\ gcloudError # "none"
        /\ metaError \in Range(outcome.error)
        /\ gcloudError \in Range(outcome.error)

\* How often x occurs in s.
Count(s, x) == Cardinality({i \in 1..Len(s) : s[i] = x})

\* The transcription call failed: no response, a non-success status, or a
\* body that is not JSON.
SttFailed == sttResult.http \in {"netError", "notOk"} \/ (sttResult.http = "ok" /\ ~sttResult.json)

\* The model-service call failed in transport: no response, a non-success
\* status, or a body that is not JSON.
LlmFailed == llmResponse.http \in {"netError", "notOk"}
             \/ (llmResponse.http = "ok" /\ llmResponse.kind = "notJson")

\* C11: the transcription request is sent only with a credential in hand and
\* after the metadata call; the model request is sent only after the
\* transcription request, with its response received; and after a failed stage
\* no call of a later stage is in the log.
C11_CallsInOrder ==
    /\ \A i \in 1..Len(calls) : calls[i] = "stt" =>
            /\ googleAccessToken # "none"
            /\ \E j \in 1..(i-1) : calls[j] = "metadata"
    /\ \A i \in 1..Len(calls) : calls[i] = "deepseek" =>
            /\ \E j \in 1..(i-1) : calls[j] = "stt"
            /\ SttAnswered
    /\ (Done /\ calls = <<"audio">>) => outcome.status = "error"
    /\ gcloudError # "none" => ("stt" \notin Range(calls) /\ "deepseek" \notin Range(calls))
    /\ SttFailed => "deepseek" \notin Range(calls)
    /\ (Done /\ outcome.status = "error" /\ calls # <<>>) =>
            calls[Len(calls)] = (CASE gcloudError # "none" -> "gcloud"
                                   [] gcloudError = "none" /\ llmResponse.http # "none" -> "deepseek"
                                   [] gcloudError = "none" /\ llmResponse.http = "none"
                                      /\ sttResult.http # "none" -> "stt"
                                   [] OTHER -> "audio")

\* C11 witness: the three stages ran in order with a gcloud credential and the
\* model request is out.
C11_Witness ==
    /\ calls = <<"audio", "metadata", "gcloud", "stt", "deepseek">>
    /\ pc = "awaitLlm"
    /\ SttAnswered

\* C12: every downstream service is called at most once in a request, and a
\* failed credential resolution, transcription call or model-service call has
\* ended the request with an error.
C12_NoRetries ==
    /\ \A c \in {"audio", "metadata", "gcloud", "stt", "deepseek"} : Count(calls, c) <= 1
    /\ gcloudError # "none" => (Done /\ outcome.status = "error")
    /\ SttFailed => (Done /\ outcome.status = "error")
    /\ LlmFailed => (Done /\ outcome.status = "error")

\* C12 witness: the transcription call failed in transport after a gcloud
\* fallback and the request ended, each service called once.
C12_Witness ==
    /\ Done
    /\ sttResult = SttNetError
    /\ calls = <<"audio", "metadata", "gcloud", "stt">>
    /\ outcome.status = "error"

\* The stage an error is reported under: the stage whose prefix is outermost in
\* its message, the prefix of the entry point set aside.
StageTag(err) ==
    LET e == IF err # <<>> /\ err[1] = "Failed to analyze audio" THEN Tail(err) ELSE err
    IN  CASE e = <<>> -> "None"
          [] e # <<>> /\ e[1] = "Failed to fetch audio data from URL" -> "AudioFetch"
          [] e # <<>> /\ e[1] = "Failed to obtain Google Cloud access token. Ensure ADC is configured or gcloud is installed and authenticated."
                -> "Auth"
          [] e # <<>> /\ e[1] = "Speech-to-Text analysis failed" -> "Transcription"
          [] e # <<>> /\ e[1] = "Failed to analyze transcript using DeepSeek" -> "Model"
          [] OTHER -> "None"

\* C13: the error of a request whose credential resolution failed is tagged as
\* a credential failure, that of a failed transcription call as a transcription
\* failure, and that of a failed model stage as a model failure.
C13_ErrorNamesFailedStage ==
    (Done /\ outcome.status = "error") =>
        /\ gcloudError # "none" => StageTag(outcome.error) = "Auth"
        /\ SttFailed => StageTag(outcome.error) = "Transcription"
        /\ llmResponse.http # "none" => StageTag(outcome.error) = "Model"

\* The completion carries a JSON object whose segments member is the empty array.
EmptySegmentsPayload ==
    LET j == ModelJson
    IN  GotCompletion /\ j.ok /\ j.v = JObject(SegsArray(<<>>))

\* C19: a completion whose payload has an empty segments array ends the
\* request with the empty result and no error; and a request in which the
\* credential resolution, the transcription call or the model stage failed
\* ends with an error, never with a result.
C19_EmptyIsSuccess ==
    /\ (Done /\ EmptySegmentsPayload) => outcome = Success(<<>>)
    /\ (Done /\ outcome.status = "ok") =>
            /\ outcome.error = <<>>
            /\ gcloudError = "none"
            /\ ~SttFailed
            /\ ~LlmFailed
            /\ llmResponse.http # "none" =>
                    LET j == ModelJson
                    IN  GotCompletion /\ j.ok /\ j.v.kind = "object" /\ j.v.segs.kind = "array"
                        /\ Len(outcome.segments) = Len(j.v.segs.items)
    /\ (Done /\ outcome.status = "error") => (outcome.error # <<>> /\ outcome.segments = <<>>)

\* C19 witness: the model answered {"segments": []} and the request succeeded.
C19_Witness == Done /\ EmptySegmentsPayload /\ outcome.status = "ok"

\* The words of the first alternative of a result group, as the response has them.
FirstAlternativeWords(g) ==
    IF /\ g.alternatives.kind = "array"
       /\ Len(g.alternatives.items) >= 1
       /\ g.alternatives.items[1].words.kind = "array"
    THEN g.alternatives.items[1].words.items
    ELSE <<>>

\* The number of first-alternative words in the groups before the k-th.
RECURSIVE WordsBefore(_, _)
WordsBefore(groups, k) ==
    IF k <= 1 THEN 0
    ELSE WordsBefore(groups, k - 1) + Len(FirstAlternativeWords(groups[k - 1]))

\* C20: once the words of a transcription response are collected, the word at
\* every position is the word of the first alternative of its group, the
\* groups in response order and the words in their order, and there are no
\* other words.
C20_WordsAreFirstAlternativesInOrder ==
    "deepseek" \in Range(calls) =>
        LET groups == sttResult.results.items
        IN  /\ Len(wordsWithTimings) = WordsBefore(groups, Len(groups) + 1)
            /\ \A k \in 1..Len(groups) :
                    \A i \in 1..Len(FirstAlternativeWords(groups[k])) :
                        wordsWithTimings[WordsBefore(groups, k) + i].word
                            = FirstAlternativeWords(groups[k])[i].word

\* C20 witness: two groups with words, the first with a second alternative,
\* gave three words.
C20_Witness ==
    /\ "deepseek" \in Range(calls)
    /\ Len(sttResult.results.items) = 2
    /\ Len(sttResult.results.items[1].alternatives.items) = 2
    /\ Len(wordsWithTimings) = 3

\* The k-th result group's i-th first-alternative word, as wordsWithTimings has it.
CollectedWord(k, i) == wordsWithTimings[WordsBefore(sttResult.results.items, k) + i]

\* A time field that is missing or is not a number followed by "s".
BadTime(t) == t.k \in {"absent", "empty", "malformed"}

\* C21: every collected word whose startTime (endTime) is missing or malformed
\* has the start (end) offset 0, a number.
C21_BadTimestampIsZero ==
    "deepseek" \in Range(calls) =>
        \A k \in 1..Len(sttResult.results.items) :
            \A i \in 1..Len(FirstAlternativeWords(sttResult.results.items[k])) :
                LET w == FirstAlternativeWords(sttResult.results.items[k])[i]
                IN  /\ BadTime(w.startTime) => CollectedWord(k, i).startTime = Number(0)
                    /\ BadTime(w.endTime) => CollectedWord(k, i).endTime = Number(0)

\* C22: a non-success answer of the model service ends the request with a
\* model-service error and no segments, whatever its body holds; the last part
\* of the message is the body's error message when the body is JSON with one,
\* and the body text otherwise.
C22_NonSuccessDiagnostic ==
    (Done /\ llmResponse.http = "notOk") =>
        /\ outcome.status = "error"
        /\ outcome.segments = <<>>
        /\ ErrorKind(outcome.error) = "ModelService"
        /\ "DeepSeek API request failed" \in Range(outcome.error)
        /\ outcome.error[Len(outcome.error)] =
                (IF llmResponse.kind = "errorMessage" THEN "error.message" ELSE "responseText")

\* C22 witness: a non-success answer whose body is a well-formed completion
\* was refused with the body text as diagnostic.
C22_Witness ==
    /\ Done
    /\ llmResponse.http = "notOk"
    /\ llmResponse.content # <<>>
    /\ outcome.error[Len(outcome.error)] = "responseText"

\* The completion has content whose payload JSON.parse refuses.
Unparseable == GotCompletion /\ Trim(llmResponse.content) # <<>> /\ ~ModelJson.ok

\* C23: when the payload of the completion cannot be parsed, the request fails
\* with a model-output error whose message carries the completion's content.
C23_ParseErrorCarriesContent ==
    (Done /\ Unparseable) =>
        /\ outcome.status = "error"
        /\ ErrorKind(outcome.error) = "ModelOutput"
        /\ "messageContent" \in Range(outcome.error)

\* C24: a request that succeeded on a completion returns the segments of the
\* model's array, each at its place with its start, end and confidence.
C24_SegmentsAsGiven ==
    (Done /\ outcome.status = "ok" /\ llmResponse.http # "none") =>
        LET segs == ModelSegments
        IN  /\ Len(outcome.segments) = Len(segs)
            /\ \A i \in 1..Len(segs) :
                    /\ outcome.segments[i].start = segs[i].start.n
                    /\ outcome.segments[i].end = segs[i].end.n
                    /\ outcome.segments[i].confidence = segs[i].confidence.n

\* C24 witness: two overlapping segments, the later one first, were returned
\* as they came.
C24_Witness ==
    /\ Done /\ outcome.status = "ok"
    /\ Len(outcome.segments) = 2
    /\ outcome.segments[1].start > outcome.segments[2].start
    /\ outcome.segments[2].end > outcome.segments[1].start

\* A script was supplied: the argument is a non-empty text.
ScriptSupplied == script \notin {"absent", ""}

\* C25: the prompt of a request holds the script block, with the script, when
\* a script was supplied and the no-script instruction when none was, one of
\* the two and not the other.
C25_ScriptBlockIffScript ==
    "deepseek" \in Range(calls) =>
        /\ llmPrompt.scriptBlock \in {"Script for comparison", "No script provided"}
        /\ llmPrompt.scriptBlock = "Script for comparison" <=> ScriptSupplied
        /\ llmPrompt.scriptBlock = "No script provided" <=> ~ScriptSupplied
        /\ ScriptSupplied => llmPrompt.script = script

\* C25 witness: a prompt was built for a request with the empty string as script.
C25_Witness ==
    /\ "deepseek" \in Range(calls)
    /\ script = ""
    /\ llmPrompt.scriptBlock = "No script provided"

\* The two decimals h (in hundredths) that toFixed(2) gives for the number x.
IsFixed2(h, x) ==
    IF x.nan THEN h.nan
    ELSE ~h.nan /\ 2 * (h.hundredths * Scale - 100 * x.n) <= Scale
                /\ 2 * (100 * x.n - h.hundredths * Scale) <= Scale

\* C26: the transcript block of a prompt has one timed entry per collected
\* word, in order, with the word's start and end; with no words it is the
\* plain transcript; and every transcription result that reaches the prompt
\* gets one.
C26_TranscriptBlock ==
    "deepseek" \in Range(calls) =>
        LET b == llmPrompt.transcriptBlock
        IN  IF wordsWithTimings # <<>>
            THEN /\ b.kind = "timed"
                 /\ Len(b.entries) = Len(wordsWithTimings)
                 /\ \A i \in 1..Len(wordsWithTimings) :
                        /\ b.entries[i].word = wordsWithTimings[i].word
                        /\ IsFixed2(b.entries[i].start, wordsWithTimings[i].startTime)
                        /\ IsFixed2(b.entries[i].end, wordsWithTimings[i].endTime)
            ELSE /\ b.kind = "plain"
                 /\ b.entries = <<>>
                 /\ b.text = transcript

\* C26 witness: a response with transcript text and no words gave a plain block.
C26_Witness ==
    /\ "deepseek" \in Range(calls)
    /\ wordsWithTimings = <<>>
    /\ transcript # <<>>
    /\ llmPrompt.transcriptBlock.text = transcript

\* ------------------------------------------------------- two requests
\* The call logs of a request running alone.
AloneLogs ==
    {SubSeq(l, 1, n) : n \in 0..5,
                       l \in {<<"audio", "metadata", "stt", "deepseek", "none">>,
                              <<"audio", "metadata", "gcloud", "stt", "deepseek">>}}

\* What a request with locals st ends with when it runs alone: what its own
\* arguments and the responses to its own calls lead to.
AloneEnds(st) ==
    LET entry == AnalyzeInternalEntry(st.audio, apiKey)
    IN  IF entry.status # "pending" THEN {entry}
        ELSE IF st.llmResponse.http # "none"
        THEN {AnalyzeInternalCatch(LlmCatch(LlmResult(st.llmResponse)))}
        ELSE IF st.sttResult.http # "none"
        THEN {AnalyzeInternalCatch(SttCatch(SttResult(st.sttResult)))}
        ELSE IF st.gcloudError # "none"
        THEN {AnalyzeInternalCatch(SttCatch(TokenFailure(st.metaError, st.gcloudError)))}
        ELSE {AnalyzeInternalCatch(AudioFetchResult(r)) : r \in {"netError", "notOk"}}

\* The locals st are those of a request running alone.
AsAlone(st) ==
    /\ st.calls \in AloneLogs
    /\ st.pc = "idle" => st = IdleLocals
    /\ st.pc # "done" => st.outcome = Pending
    /\ st.pc = "done" => st.outcome \in AloneEnds(st)
    /\ "stt" \in Range(st.calls) <=> st.googleAccessToken # "none"
    /\ "stt" \notin Range(st.calls) => st.sttResult = NoStt
    /\ "deepseek" \notin Range(st.calls) =>
            /\ st.llmResponse = NoLlm
            /\ st.llmPrompt = NoPrompt
            /\ st.wordsWithTimings = <<>>
            /\ st.transcript = <<>>
    /\ "deepseek" \in Range(st.calls) =>
            /\ st.wordsWithTimings = CollectWords(st.sttResult.results.items)
            /\ st.transcript = CollectTranscript(st.sttResult.results.items)
            /\ st.llmPrompt = LlmPrompt(st.wordsWithTimings, st.transcript, st.script)

\* C18: with two requests taking turns at their awaits, the locals of each are
\* at every moment those of a request running alone, and each ends with what
\* its own arguments and responses lead to; a step of one request changes
\* nothing of the other, and the one value both read is never written.
C18_TwoRequestsAsAlone ==
    /\ [](AsAlone(Locals) /\ AsAlone(other))
    /\ [][apiKey' = apiKey]_vars
    /\ [][other' = other \/ (other' = Locals /\ Locals' = other)]_vars

\* C18 witness: two requests were in flight together, took turns, and ended
\* differently: one with segments, one with a transcription error.
C18_Witness ==
    /\ interleaved
    /\ Done /\ other.pc = "done"
    /\ outcome.status = "ok" /\ outcome.segments # <<>>
    /\ other.outcome.status = "error"
    /\ other.sttResult = SttNetError

C15_TiesByEnd ==
    sorts >= 1 =>
        \A i, j \in 1..Len(segments.items) :
            (i < j /\ segments.items[i].start = segments.items[j].start)
                => segments.items[i].end <= segments.items[j].end

\* The call was made without segments.
NoSegments == segments.kind = "absent" \/ segments.items = <<>>

\* C16: a call without segments fails with the no-segments error, whatever
\* the audio argument is.
C16_EmptyInputFirst ==
    (processed.status # "pending" /\ NoSegments) =>
        processed = Failure(<<"Cannot process audio: No clean segments provided.">>)

\* C16 witness: a call with the empty array and empty audio has failed.
C16_Witness ==
    /\ processed.status = "error"
    /\ segments = Arr(<<>>)
    /\ audioBase64 = ""

\* C17 as claimed: every call fails with the not-implemented error.
C17_AlwaysNotImplemented ==
    processed.status # "pending" =>
        processed = Failure(<<"Audio segment processing not implemented yet.">>)

\* C17 amended: every call fails and none returns audio; the failure is the
\* not-implemented error when segments and audio were given, the no-segments
\* error when no segments were given, and the no-audio error when segments
\* were given without audio.
C17_AlwaysFails ==
    processed.status # "pending" =>
        /\ processed.status = "error"
        /\ processed.segments = <<>>
        /\ processed.error =
                (IF NoSegments THEN <<"Cannot process audio: No clean segments provided.">>
                 ELSE IF audioBase64 = ""
                 THEN <<"Audio data (base64) must be provided for processing.">>
                 ELSE <<"Audio segment processing not implemented yet.">>)

\* C17 witness: a call with segments and audio failed as not implemented.
C17_Witness ==
    /\ processed = Failure(<<"Audio segment processing not implemented yet.">>)
    /\ ~NoSegments
    /\ audioBase64 # ""

\* The elements of s that start at v, in their order in s.
StartingAt(s, v) ==
    LET Starts(e) == e.start = v
    IN  SelectSeq(s, Starts)

\* t is s reordered by ascending start, segments with equal start in the order
\* they have in s.
StableByStart(t, s) ==
    /\ Len(t) = Len(s)
    /\ \A i, j \in 1..Len(t) : i < j => t[i].start <= t[j].start
    /\ \A e \in Range(s) \cup Range(t) : StartingAt(t, e.start) = StartingAt(s, e.start)

\* C27: the caller's array is as given until a call with segments and audio;
\* from then on it is the given array reordered by ascending start with
\* equal-start segments in their given order; a call changes the array only if
\* it has both arguments, and a call that sorts ends with the not-implemented
\* error; a call that fails for its arguments leaves the array alone.
C27_SortsInPlaceOnlyWithBoth ==
    /\ [](sorts = 0 => segments = given)
    /\ [](sorts >= 1 => (segments.kind = "array" /\ StableByStart(segments.items, given.items)))
    /\ [][(segments' # segments \/ sorts' # sorts) =>
                /\ audioBase64' # ""
                /\ ~NoSegments
                /\ processed' = Failure(<<"Audio segment processing not implemented yet.">>)]_vars
    /\ [][(processed' # Failure(<<"Audio segment processing not implemented yet.">>)
            /\ processed'.status = "error") => segments' = segments]_vars

\* C27 witness: an array with two segments of equal start behind a later one
\* was reordered, and the call failed.
C27_Witness ==
    /\ sorts >= 1
    /\ segments # given
    /\ processed.status = "error"
    /\ \E i, j \in 1..Len(given.items) :
            i < j /\ given.items[i].start = given.items[j].start /\ given.items[i] # given.items[j]

\* ------------------------------------------------- analyzeAndCleanAudio
\* C28: analyzeAndCleanAudio never sorts or processes: when the analysis
\* succeeded it resolves with foundSegments equal to the analysis's segments,
\* in their order, and with the no-perfect-takes message exactly when there
\* are none; when the analysis failed it rejects with that failure; it never
\* rejects with the not-implemented error, and the post-processor is not run.
C28_CleanReportsTakes ==
    /\ sorts = 0 /\ processed = Pending
    /\ cleaned.status # "pending" =>
            /\ Done
            /\ "Audio segment processing not implemented yet." \notin Range(cleaned.error)
            /\ outcome.status = "ok" =>
                    /\ cleaned.status = "ok"
                    /\ cleaned.foundSegments = outcome.segments
                    /\ cleaned.message = "Analysis complete: No perfect takes found."
                            <=> outcome.segments = <<>>
                    /\ outcome.segments # <<>> =>
                            cleaned.message = "Analysis complete, processing not implemented."
            /\ outcome.status = "error" =>
                    /\ cleaned.status = "error"
                    /\ cleaned.error = outcome.error
                    /\ cleaned.foundSegments = <<>>

\* C28 witness: an analysis with two segments, the later one first, was
\* reported as it came.
C28_Witness ==
    /\ cleaned.status = "ok"
    /\ Len(cleaned.foundSegments) = 2
    /\ cleaned.foundSegments[1].start > cleaned.foundSegments[2].start

\* ---------------------------------------------------- the recording page
\* C29: whenever the page is not recording and no start is pending, every
\* stream that was acquired has its tracks stopped and mediaStream is null.
C29_NoStreamLeftLive ==
    (~isRecording /\ pendingPermission = 0) =>
        /\ mediaStream = 0
        /\ \A r \in 1..acquired : ~trackLive[r]

\* The data of size above 0 in a sequence of deliveries, in order.
NonEmptyData(d) ==
    LET HasData(e) == e.size > 0
    IN  SelectSeq(d, HasData)

\* Recorder r's stop event is handled in this step.
Stops(r) == recorderState[r] = "stopping" /\ recorderState'[r] = "inactive"

\* C30: when a recorder's stop event is handled the chunk buffer is
\* empty afterwards; audioFile is the file of exactly the non-empty data the
\* recorder delivered since its start, in order; with none delivered no file
\* and no URL are made and audioFile is null.
C30_FileFromOwnChunksElseNull ==
    [][\A r \in Streams : Stops(r) =>
            /\ recordedChunks' = <<>>
            /\ IF NonEmptyData(delivered'[r]) # <<>>
               THEN /\ audioFile' = FileOf(NonEmptyData(delivered'[r]))
                    /\ audioPreviewUrl' = FileOf(NonEmptyData(delivered'[r]))
               ELSE /\ audioFile' = NoFile
                    /\ audioPreviewUrl' = audioPreviewUrl]_vars

\* What does hold of a stop event: the same, but with none delivered
\* audioFile and the preview URL are left as they were, null or not.
FileFromOwnChunksElseUnchanged ==
    /\ [](recordedChunks = <<>>)
    /\ [][\A r \in Streams : Stops(r) =>
            /\ recordedChunks' = <<>>
            /\ IF NonEmptyData(delivered'[r]) # <<>>
               THEN /\ audioFile' = FileOf(NonEmptyData(delivered'[r]))
                    /\ audioPreviewUrl' = FileOf(NonEmptyData(delivered'[r]))
               ELSE /\ audioFile' = audioFile
                    /\ audioPreviewUrl' = audioPreviewUrl]_vars

\* Start clicked twice before permission came, both granted, Stop clicked and
\* the recorder stopped: the first stream is still live.
SecondStartLeak ==
    /\ acquired = 2
    /\ recorderState[1] = "recording"
    /\ recorderState[2] = "inactive"
    /\ trackLive[1]
    /\ ~isRecording
    /\ pendingPermission = 0
    /\ mediaStream = 0

====
